---- MODULE Spec2Model ----
\* A model of library/mikrotik_command.py: one invocation of the MikroTik
\* RouterOS command module, either from the shell (SHELLMODE) or as an
\* Ansible module.  Strings are sequences of atoms: an atom is a whitespace
\* character (" ", "\t", "\r", "\n"), a punctuation mark the code looks for,
\* or a run of other characters that the code never looks inside.
EXTENDS Integers, Sequences, FiniteSets, TLC

VARIABLES
    pc,           \* position in the program
    shellmode,    \* SHELLMODE
    has_ssh,      \* HAS_SSHCLIENT
    cmdline,      \* sys.argv, while parse_opts reads it
    params,       \* SHELLOPTS or module.params
    trace,        \* what the invocation did to the outside, in order
    lastReply,    \* the text the device answered to the last exec_command
    before,       \* main's local 'before'
    after,        \* main's local 'after'
    uploaded,     \* main's local 'uploaded'
    script,       \* main's local 'script'
    response,     \* main's local 'response'
    changed,      \* main's local 'changed'
    files,        \* what os.path.isfile / open found for the two local paths
    result        \* how the invocation ended

vars == <<pc, shellmode, has_ssh, cmdline, params, trace, lastReply, before,
          after, uploaded, script, response, changed, files, result>>

-----------------------------------------------------------------------------
\* Bounds.

\* Most options after the script name on a command line.
MaxArgs == 3

\* Longest configuration dump, in atoms, of the comparison's own specification.
MaxSnapLen == 4

-----------------------------------------------------------------------------
\* Python values: None, a bool, an int or a str.

PyNone == [t |-> "none", b |-> FALSE, n |-> 0, s |-> <<>>]

PyBool(b) == [t |-> "bool", b |-> b, n |-> 0, s |-> <<>>]

PyInt(n) == [t |-> "int", b |-> FALSE, n |-> n, s |-> <<>>]

PyStr(s) == [t |-> "str", b |-> FALSE, n |-> 0, s |-> s]

\* Python's truth value of v.
Truthy(v) ==
    CASE v.t = "none" -> FALSE
      [] v.t = "bool" -> v.b
      [] v.t = "int"  -> v.n # 0
      [] OTHER        -> v.s # <<>>

-----------------------------------------------------------------------------
\* str methods.

Whitespace == {" ", "\t", "\r", "\n"}

LineBreaks == {"\r", "\n"}

\* needle in hay
Contains(needle, hay) ==
    \E i \in 1..(Len(hay) - Len(needle) + 1) :
        SubSeq(hay, i, i + Len(needle) - 1) = needle

RECURSIVE RStrip(_)
\* s.rstrip()
RStrip(s) ==
    IF s # <<>> /\ s[Len(s)] \in Whitespace
    THEN RStrip(SubSeq(s, 1, Len(s) - 1))
    ELSE s

RECURSIVE LStrip(_)
\* s.lstrip()
LStrip(s) ==
    IF s # <<>> /\ s[1] \in Whitespace THEN LStrip(Tail(s)) ELSE s

\* s.strip()
Strip(s) == LStrip(RStrip(s))

\* The index of the first line break of s, 0 when it has none.
FirstBreak(s) ==
    IF \E i \in 1..Len(s) : s[i] \in LineBreaks
    THEN CHOOSE i \in 1..Len(s) :
             /\ s[i] \in LineBreaks
             /\ \A j \in 1..(i - 1) : s[j] \notin LineBreaks
    ELSE 0

RECURSIVE SplitLines(_, _)
\* s.splitlines(keepends): "\n", "\r" and "\r\n" each end a line.
SplitLines(s, keepends) ==
    IF s = <<>> THEN <<>>
    ELSE LET i == FirstBreak(s) IN
         IF i = 0 THEN <<s>>
         ELSE LET e == IF s[i] = "\r" /\ i < Len(s) /\ s[i + 1] = "\n"
                       THEN i + 1 ELSE i
              IN  <<SubSeq(s, 1, IF keepends THEN e ELSE i - 1)>>
                      \o SplitLines(SubSeq(s, e + 1, Len(s)), keepends)

\* s.lower(), on the atoms the command lines of this model use.
Lower(s) ==
    [i \in 1..Len(s) |->
        CASE s[i] = "No"   -> "no"
          [] s[i] = "YES"  -> "yes"
          [] s[i] = "True" -> "true"
          [] OTHER         -> s[i]]

\* The index of the first atom a of s, 0 when it has none.
Find(s, a) ==
    IF \E i \in 1..Len(s) : s[i] = a
    THEN CHOOSE i \in 1..Len(s) : s[i] = a /\ \A j \in 1..(i - 1) : s[j] # a
    ELSE 0

RECURSIVE Replace(_, _, _)
\* s.replace(a, new) for a one-atom a
Replace(s, a, new) ==
    IF s = <<>> THEN <<>>
    ELSE (IF s[1] = a THEN new ELSE <<s[1]>>) \o Replace(Tail(s), a, new)

RECURSIVE LastSlash(_)
LastSlash(p) ==
    IF p = <<>> THEN 0
    ELSE IF p[Len(p)] = "/" THEN Len(p)
    ELSE LastSlash(SubSeq(p, 1, Len(p) - 1))

\* os.path.basename(p)
Basename(p) == SubSeq(p, LastSlash(p) + 1, Len(p))

\* All strings of at most n atoms of A.
RECURSIVE Strings(_, _)
Strings(A, n) ==
    IF n = 0 THEN {<<>>}
    ELSE LET shorter == Strings(A, n - 1) IN
         shorter \cup {Append(s, a) : s \in shorter, a \in A}

-----------------------------------------------------------------------------
\* The command line (shell mode) and the module parameters (Ansible).

\* The defaults of the shell's options.
SHELLDEFS ==
    (<<"username">>     :> PyStr(<<"admin">>))
 @@ (<<"password">>     :> PyStr(<<>>))
 @@ (<<"key_filename">> :> PyNone)
 @@ (<<"timeout">>      :> PyInt(30))
 @@ (<<"port">>         :> PyInt(22))
 @@ (<<"test_change">>  :> PyBool(TRUE))
 @@ (<<"command">>      :> PyNone)
 @@ (<<"upload_script">> :> PyNone)
 @@ (<<"upload_file">>  :> PyNone)

\* opt.split("=", 1) of one command-line word, then the coercion of the
\* value and the removal of the two dashes: [arg, val].
SplitOpt(opt) ==
    LET eq  == Find(opt, "=")
        raw == SubSeq(opt, eq + 1, Len(opt))
        val == IF eq = 0 THEN PyBool(TRUE)
               ELSE IF Lower(raw) \in {<<"no">>, <<"false">>, <<"0">>}
                    THEN PyBool(FALSE)
               ELSE IF Lower(raw) \in {<<"yes">>, <<"true">>, <<"1">>}
                    THEN PyBool(TRUE)
               ELSE PyStr(raw)
        arg == IF eq = 0 THEN opt ELSE SubSeq(opt, 1, eq - 1)
    IN  [arg |-> Tail(arg), val |-> val]

\* KnownOpt without the test: every option is stored.
KnownOptAny(arg, options) == TRUE

\* arg in options or arg == 'hostname'
KnownOpt(arg, options) == arg \in DOMAIN options \/ arg = <<"hostname">>

RECURSIVE ParseLoop(_, _)
\* The loop of parse_opts over the words left, and the check that follows it:
\* [exit, options], exit "" when parse_opts returns options.
ParseLoop(words, options) ==
    IF words = <<>>
    THEN IF <<"hostname">> \notin DOMAIN options
         THEN [exit |-> "Hostname is required", options |-> options]
         ELSE [exit |-> "", options |-> options]
    ELSE LET opt == Head(words) IN
         IF ~(opt # <<>> /\ opt[1] = "--")
         THEN ParseLoop(Tail(words), options)
         ELSE LET kv == SplitOpt(opt) IN
              IF KnownOpt(kv.arg, options)
              THEN ParseLoop(Tail(words),
                             (kv.arg :> kv.val) @@ options)
              ELSE [exit |-> "Unknown option", options |-> options]

\* parse_opts(cmdline)
parse_opts(words) == ParseLoop(words, SHELLDEFS)

\* The script's own name, sys.argv[0].
ScriptName == <<"mikrotik_command.py">>

\* The words a command line of this model is made of.
OptWords ==
    { <<"--", "hostname", "=", "router">>,
      <<"--", "command", "=", "/ip address print">>,
      <<"--", "command", "=", "user ssh-keys import">>,
      <<"--", "upload_script", "=", "scripts", "/", "conf.rsc">>,
      <<"--", "upload_file", "=", "keys", "/", "id_rsa.pub">>,
      <<"--", "test_change", "=", "No">>,
      <<"--", "foo", "=", "bar">>,
      <<"-v">> }

\* sys.argv: the script's name and at most MaxArgs words.
CommandLines == {<<ScriptName>> \o w : w \in Strings(OptWords, MaxArgs)}

\* module.params, as AnsibleModule builds them from argument_spec: hostname
\* is required, test_change is a bool, the rest default to None.
ModuleParams ==
    { (<<"command">> :> c) @@ (<<"upload_script">> :> s)
        @@ (<<"test_change">> :> PyBool(t)) @@ (<<"upload_file">> :> f)
        @@ (<<"key_filename">> :> PyNone) @@ (<<"port">> :> PyInt(22))
        @@ (<<"timeout">> :> PyInt(30)) @@ (<<"hostname">> :> PyStr(<<"router">>))
        @@ (<<"username">> :> PyStr(<<"ansible">>)) @@ (<<"password">> :> PyNone) :
      c \in {PyNone, PyStr(<<"/ip address print">>),
             PyStr(<<"user ssh-keys import">>)},
      s \in {PyNone, PyStr(<<"scripts", "/", "conf.rsc">>)},
      f \in {PyNone, PyStr(<<"keys", "/", "id_rsa.pub">>)},
      t \in BOOLEAN }

-----------------------------------------------------------------------------
\* What the invocation does to the outside, and how it ends.

\* One entry of the trace.
Event(ev, cmd, ok) ==
    [ev |-> ev, cmd |-> cmd, ok |-> ok, allow_agent |-> TRUE,
     look_for_keys |-> TRUE]

\* device.connect(...) with the given allow_agent and look_for_keys.
ConnectEvent(agent, keys, ok) ==
    [ev |-> "connect", cmd |-> PyNone, ok |-> ok, allow_agent |-> agent,
     look_for_keys |-> keys]

Usage == Event("usage", PyNone, TRUE)

Close == Event("close", PyNone, TRUE)

NoResult ==
    [kind |-> "", msg |-> "", status |-> 0, stdout |-> <<>>,
     stdout_lines |-> <<>>, has_changed |-> FALSE, changed |-> FALSE]

\* sys.exit(msg), fail_json(msg=...) or an uncaught exception: status 1.
Failure(kind, msg) == [NoResult EXCEPT !.kind = kind, !.msg = msg, !.status = 1]

\* safe_fail(module, device, ...): the events before fail_json.
safe_fail(tr, device) == IF device THEN Append(tr, Close) ELSE tr

\* The invocation ends with result r after the events tr.
Terminate(r, tr) ==
    /\ pc' = "exit"
    /\ result' = r
    /\ trace' = tr

\* InitialChanged as False.
InitialChangedFalse == FALSE

\* changed = True, the value main starts with.
InitialChanged == TRUE

Init ==
    /\ pc = "start"
    /\ shellmode \in BOOLEAN
    /\ has_ssh \in BOOLEAN
    /\ cmdline \in CommandLines
    /\ params = SHELLDEFS
    /\ trace = <<>>
    /\ lastReply = <<>>
    /\ before = <<>>
    /\ after = <<>>
    /\ uploaded = <<>>
    /\ script = <<>>
    /\ response = <<>>
    /\ changed = InitialChanged
    /\ files = [upload_file |-> "unchecked", upload_script |-> "unchecked"]
    /\ result = NoResult

\* __main__: parse_opts when there are arguments or SHELLMODE is set.
ParseOpts ==
    /\ pc = "start"
    /\ Len(cmdline) > 1 \/ shellmode
    /\ LET p == parse_opts(cmdline) IN
       IF p.exit # ""
       THEN /\ Terminate(Failure("UsageError", p.exit), Append(trace, Usage))
            /\ UNCHANGED <<shellmode, params, cmdline>>
       ELSE /\ pc' = "main"
            /\ params' = p.options
            /\ shellmode' = TRUE
            /\ cmdline' = <<>>
            /\ UNCHANGED <<trace, result>>
    /\ UNCHANGED <<has_ssh, lastReply, before, after, uploaded, script,
                   response, changed, files>>

\* __main__ without arguments and without SHELLMODE: main() as a module,
\* whose AnsibleModule reads the parameters.
ModuleStart ==
    /\ pc = "start"
    /\ ~(Len(cmdline) > 1 \/ shellmode)
    /\ pc' = "main"
    /\ params' \in ModuleParams
    /\ cmdline' = <<>>
    /\ UNCHANGED <<shellmode, has_ssh, trace, lastReply, before, after,
                   uploaded, script, response, changed, files, result>>

\* main, up to the name resolution: the checks on the parameters.
MainParams ==
    /\ pc = "main"
    /\ IF ~has_ssh
       THEN Terminate(Failure("ImportError", "SSH client error"), trace)
       ELSE IF ~Truthy(params[<<"command">>])
               /\ ~Truthy(params[<<"upload_script">>])
       THEN Terminate(Failure("UsageError", "command required"),
                      IF shellmode THEN Append(trace, Usage) ELSE trace)
       ELSE /\ pc' = "resolve"
            /\ UNCHANGED <<trace, result>>
    /\ UNCHANGED <<shellmode, has_ssh, cmdline, params, lastReply, before,
                   after, uploaded, script, response, changed, files>>

-----------------------------------------------------------------------------
\* The device.

\* Name resolution failed or succeeded; each connect raised or returned.
Outcomes == BOOLEAN

\* The texts the device answers a command with.
DeviceOutputs ==
    { <<>>,
      <<"# t0", "\r", "\n", "a", "\r", "\n", " ", "\r", "\n", "b", "\r", "\n">>,
      <<"# t1", "\r", "\n", "a", "\r", "\n", " ", "\r", "\n", "b", "\r", "\n">>,
      <<"0", " ", "name=", "id_rsa.pub", " ", "type=", "file", "\r", "\n">>,
      <<"syntax error", "\r", "\n">>,
      <<"a", "\r", "\n", "syntax error", " ", "(line 1 column 4)", "\r", "\n">>,
      <<"bad command name", " ", "exprot", "\r", "\n">>,
      <<"id_rsa.pub", " ", "failure:", " ", "already have such file">>,
      <<"failure:", " ">> }

\* What device.exec_command and stdout.read() do: raise, or answer a text.
ExecOutcomes ==
    {[raised |-> TRUE, text |-> <<>>]}
        \cup {[raised |-> FALSE, text |-> t] : t \in DeviceOutputs}

\* What exec_command can do with the given command: a command that is no
\* string (main passes None when only a missing upload_script was given)
\* cannot be put into the request, and exec_command raises.
ExecOutcomesFor(command) ==
    {out \in ExecOutcomes : command.t = "str" \/ out.raised}

\* The three substrings by which sshcmd knows an error.
BadCommandName == <<"bad command name", " ">>

SyntaxError == <<"syntax error", " ">>

FailureColon == <<"failure:", " ">>

\* ResponseAccepted without the test for 'failure: '.
ResponseAcceptedNoFailure(resp) ==
    IF ~Contains(BadCommandName, resp)
    THEN IF ~Contains(SyntaxError, resp) THEN TRUE ELSE FALSE
    ELSE FALSE

\* sshcmd's test of the response: TRUE when the response is returned.
ResponseAccepted(resp) ==
    IF ~Contains(BadCommandName, resp)
    THEN IF ~Contains(SyntaxError, resp)
         THEN IF ~Contains(FailureColon, resp) THEN TRUE ELSE FALSE
         ELSE FALSE
    ELSE FALSE

\* What sshcmd does after a failed command, before it exits: nothing in
\* shell mode (sys.exit), safe_fail as a module.
SshcmdFail(shell, tr) == IF shell THEN tr ELSE safe_fail(tr, TRUE)

\* sshcmd(module, device, timeout, command), out being what the device does:
\* [returned, value, result, trace].
sshcmd(shell, tr, command, out) ==
    LET tr1 == Append(tr, Event("exec", command, ~out.raised)) IN
    IF out.raised
    THEN [returned |-> FALSE, value |-> <<>>,
          result |-> Failure("CommandError", "SSH command error"),
          trace |-> SshcmdFail(shell, tr1)]
    ELSE IF ResponseAccepted(out.text)
    THEN [returned |-> TRUE, value |-> RStrip(out.text),
          result |-> NoResult, trace |-> tr1]
    ELSE [returned |-> FALSE, value |-> <<>>,
          result |-> Failure("CommandError", "bad command name or syntax error"),
          trace |-> SshcmdFail(shell, tr1)]

\* device_connect whose second attempt repeats the options of the first.
device_connect_same_options(shell, tr, first, second) ==
    IF first
    THEN [connected |-> TRUE, result |-> NoResult,
          trace |-> Append(tr, ConnectEvent(TRUE, TRUE, TRUE))]
    ELSE LET tr1 == Append(tr, ConnectEvent(TRUE, TRUE, FALSE)) IN
         IF second
         THEN [connected |-> TRUE, result |-> NoResult,
               trace |-> Append(tr1, ConnectEvent(TRUE, TRUE, TRUE))]
         ELSE LET tr2 == Append(tr1, ConnectEvent(TRUE, TRUE, FALSE)) IN
              [connected |-> FALSE,
               result |-> Failure("ConnectionError", "SSH error"),
               trace |-> IF shell THEN tr2 ELSE safe_fail(tr2, TRUE)]

\* device_connect that returns to main although both attempts failed.
device_connect_unchecked(shell, tr, first, second) ==
    IF first
    THEN [connected |-> TRUE, result |-> NoResult,
          trace |-> Append(tr, ConnectEvent(TRUE, TRUE, TRUE))]
    ELSE [connected |-> TRUE, result |-> NoResult,
          trace |-> Append(Append(tr, ConnectEvent(TRUE, TRUE, FALSE)),
                           ConnectEvent(FALSE, FALSE, second))]

\* device_connect(module, device, rosdev), first and second being whether the
\* first and the second device.connect return: [connected, result, trace].
device_connect(shell, tr, first, second) ==
    IF first
    THEN [connected |-> TRUE, result |-> NoResult,
          trace |-> Append(tr, ConnectEvent(TRUE, TRUE, TRUE))]
    ELSE LET tr1 == Append(tr, ConnectEvent(TRUE, TRUE, FALSE)) IN
         IF second
         THEN [connected |-> TRUE, result |-> NoResult,
               trace |-> Append(tr1, ConnectEvent(FALSE, FALSE, TRUE))]
         ELSE LET tr2 == Append(tr1, ConnectEvent(FALSE, FALSE, FALSE)) IN
              [connected |-> FALSE,
               result |-> Failure("ConnectionError", "SSH error"),
               trace |-> IF shell THEN tr2 ELSE safe_fail(tr2, TRUE)]

-----------------------------------------------------------------------------
\* main, from the name resolution on.

\* socket.gethostbyname(rosdev['hostname'])
Resolve ==
    /\ pc = "resolve"
    /\ \E ok \in Outcomes :
         LET tr == Append(trace, Event("resolve", params[<<"hostname">>], ok)) IN
         IF ok
         THEN /\ pc' = "connect"
              /\ trace' = tr
              /\ UNCHANGED result
         ELSE Terminate(Failure("HostResolutionError", "Hostname error"), tr)
    /\ UNCHANGED <<shellmode, has_ssh, cmdline, params, lastReply, before,
                   after, uploaded, script, response, changed, files>>

\* device = paramiko.SSHClient(); device_connect(module, device, rosdev)
Connect ==
    /\ pc = "connect"
    /\ \E first \in Outcomes, second \in Outcomes :
         LET c == device_connect(shellmode, trace, first, second) IN
         IF c.connected
         THEN /\ pc' = "before"
              /\ trace' = c.trace
              /\ UNCHANGED result
         ELSE Terminate(c.result, c.trace)
    /\ UNCHANGED <<shellmode, has_ssh, cmdline, params, lastReply, before,
                   after, uploaded, script, response, changed, files>>

\* if test_change: before = sshcmd(module, device, cmd_timeout, "export")
TakeBefore ==
    /\ pc = "before"
    /\ IF Truthy(params[<<"test_change">>])
       THEN \E out \in ExecOutcomes :
              LET r == sshcmd(shellmode, trace, PyStr(<<"export">>), out) IN
              /\ lastReply' = out.text
              /\ IF r.returned
                 THEN /\ pc' = "upload"
                      /\ before' = r.value
                      /\ trace' = r.trace
                      /\ UNCHANGED result
                 ELSE /\ Terminate(r.result, r.trace)
                      /\ UNCHANGED before
       ELSE /\ pc' = "upload"
            /\ UNCHANGED <<lastReply, before, trace, result>>
    /\ UNCHANGED <<shellmode, has_ssh, cmdline, params, after, uploaded,
                   script, response, changed, files>>

\* 'file print terse without-paging where name="' + uploaded + '"'
ListingCommand(name) ==
    <<"file print terse without-paging where name=", "\"">> \o name \o <<"\"">>

\* UploadFail without the close.
UploadFailNoClose(tr) == tr

\* What main does when the listing lacks the uploaded name: close, then exit.
UploadFail(tr) == Append(tr, Close)

\* if upload_file and os.path.isfile(upload_file): upload it and list it.
Upload ==
    /\ pc = "upload"
    /\ IF Truthy(params[<<"upload_file">>])
       THEN \E isfile \in BOOLEAN :
              IF isfile
              THEN LET name == Basename(params[<<"upload_file">>].s) IN
                   /\ uploaded' = name
                   /\ files' = [files EXCEPT !.upload_file = "file"]
                   /\ \E put \in Outcomes :
                        LET tr == Append(trace,
                                      Event("sftp_put", PyStr(name), put)) IN
                        IF ~put
                        THEN /\ Terminate(Failure("Traceback", "sftp"), tr)
                             /\ UNCHANGED <<lastReply, response>>
                        ELSE \E out \in ExecOutcomes :
                               LET r == sshcmd(shellmode, tr,
                                          PyStr(ListingCommand(name)), out) IN
                               /\ lastReply' = out.text
                               /\ IF ~r.returned
                                  THEN /\ Terminate(r.result, r.trace)
                                       /\ UNCHANGED response
                                  ELSE /\ response' = r.value
                                       /\ IF ~Contains(name, r.value)
                                          THEN Terminate(
                                                 Failure("UploadError",
                                                         "upload failed!"),
                                                 UploadFail(r.trace))
                                          ELSE /\ pc' = "script"
                                               /\ trace' = r.trace
                                               /\ UNCHANGED result
              ELSE /\ pc' = "script"
                   /\ files' = [files EXCEPT !.upload_file = "missing"]
                   /\ UNCHANGED <<uploaded, lastReply, response, trace, result>>
       ELSE /\ pc' = "script"
            /\ UNCHANGED <<uploaded, files, lastReply, response, trace, result>>
    /\ UNCHANGED <<shellmode, has_ssh, cmdline, params, before, after,
                   script, changed>>

\* The local script files of this model, as scriptfile.readlines() gives them.
Scripts ==
    { <<>>,
      << <<":put", " ", "\"", "$", "x", "\\", "\"", " ", "\r", "\n">>,
         <<"/ip service print">> >> }

\* What main does when the script file cannot be opened: close, then exit.
ScriptFail(tr) == Append(tr, Close)

\* if upload_script and os.path.isfile(upload_script): read the script.
OpenScript ==
    /\ pc = "script"
    /\ IF Truthy(params[<<"upload_script">>])
       THEN \E found \in {"missing", "unreadable", "readable"} :
              /\ files' = [files EXCEPT !.upload_script = found]
              /\ CASE found = "missing" ->
                        /\ pc' = "command"
                        /\ UNCHANGED <<script, response, trace, result>>
                   [] found = "unreadable" ->
                        /\ response' = <<>>
                        /\ Terminate(Failure("ScriptFileError",
                                             "Script file error"),
                                     ScriptFail(trace))
                        /\ UNCHANGED script
                   [] found = "readable" ->
                        /\ response' = <<>>
                        /\ script' \in Scripts
                        /\ pc' = "script_remove"
                        /\ UNCHANGED <<trace, result>>
       ELSE /\ pc' = "command"
            /\ UNCHANGED <<files, script, response, trace, result>>
    /\ UNCHANGED <<shellmode, has_ssh, cmdline, params, lastReply, before,
                   after, uploaded, changed>>

\* scriptname = os.path.basename(upload_script)
scriptname == Basename(params[<<"upload_script">>].s)

\* '/system script remove [ find name="' + scriptname + '" ]'
RemoveCommand(name) ==
    <<"/system script remove [ find name=", "\"">> \o name \o <<"\"", " ]">>

\* One line of the script as the loop appends it to cmd.
EscapeLine(line) ==
    LET l1 == RStrip(line)
        l2 == Replace(l1, "\\", <<"\\", "\\">>)
        l3 == Replace(l2, "\"", <<"\\", "\"">>)
        l4 == Replace(l3, "$", <<"\\", "$">>)
    IN  l4 \o <<"\\", "r", "\\", "n">>

RECURSIVE EscapeLines(_)
EscapeLines(lines) ==
    IF lines = <<>> THEN <<>>
    ELSE EscapeLine(Head(lines)) \o EscapeLines(Tail(lines))

\* '/system script add name="' + scriptname + '" source="' + ... + '"'
AddCommand(name, lines) ==
    <<"/system script add name=", "\"">> \o name \o <<"\"", " source=", "\"">>
        \o EscapeLines(lines) \o <<"\"">>

\* '/system script run [ find name="' + scriptname + '" ]'
RunCommand(name) ==
    <<"/system script run [ find name=", "\"">> \o name \o <<"\"", " ]">>

\* if response: response += '\r\n'
EndResponse(resp) == IF resp # <<>> THEN resp \o <<"\r", "\n">> ELSE resp

\* response += sshcmd(module, device, cmd_timeout, command), then go to 'to';
\* the last command of the branch also ends the response.
ScriptStep(at, command, to, last) ==
    /\ pc = at
    /\ \E out \in ExecOutcomes :
         LET r == sshcmd(shellmode, trace, PyStr(command), out) IN
         /\ lastReply' = out.text
         /\ IF r.returned
            THEN /\ pc' = to
                 /\ response' = IF last THEN EndResponse(response \o r.value)
                                ELSE response \o r.value
                 /\ trace' = r.trace
                 /\ UNCHANGED result
            ELSE /\ Terminate(r.result, r.trace)
                 /\ UNCHANGED response
    /\ UNCHANGED <<shellmode, has_ssh, cmdline, params, before, after,
                   uploaded, script, changed, files>>

ScriptRemove ==
    ScriptStep("script_remove", RemoveCommand(scriptname), "script_add", FALSE)

ScriptAdd ==
    ScriptStep("script_add", AddCommand(scriptname, script), "script_run", FALSE)

ScriptRun ==
    ScriptStep("script_run", RunCommand(scriptname), "after", TRUE)

\* '/user ssh-keys import public-key-file="' + uploaded + '" user=' + username
ImportCommand(name, user) ==
    <<"/user ssh-keys import public-key-file=", "\"">> \o name
        \o <<"\"", " user=">> \o user

\* The else branch of the script test: the command parameter, or the import
\* of the uploaded key.
Command ==
    /\ pc = "command"
    /\ IF /\ Truthy(params[<<"upload_file">>])
          /\ params[<<"command">>] = PyStr(<<"user ssh-keys import">>)
          /\ files.upload_file # "file"
       THEN \* 'uploaded' was never assigned: NameError
            /\ Terminate(Failure("Traceback", "NameError"), trace)
            /\ UNCHANGED <<lastReply, response>>
       ELSE LET command ==
                  IF /\ Truthy(params[<<"upload_file">>])
                     /\ params[<<"command">>] = PyStr(<<"user ssh-keys import">>)
                  THEN PyStr(ImportCommand(uploaded, params[<<"username">>].s))
                  ELSE params[<<"command">>]
            IN
            \E out \in ExecOutcomesFor(command) :
              LET r == sshcmd(shellmode, trace, command, out)
              IN  /\ lastReply' = out.text
                  /\ IF r.returned
                     THEN /\ pc' = "after"
                          /\ response' = EndResponse(r.value)
                          /\ trace' = r.trace
                          /\ UNCHANGED result
                     ELSE /\ Terminate(r.result, r.trace)
                          /\ UNCHANGED response
    /\ UNCHANGED <<shellmode, has_ssh, cmdline, params, before, after,
                   uploaded, script, changed, files>>

\* if test_change: after = sshcmd(module, device, cmd_timeout, "/export")
TakeAfter ==
    /\ pc = "after"
    /\ IF Truthy(params[<<"test_change">>])
       THEN \E out \in ExecOutcomes :
              LET r == sshcmd(shellmode, trace, PyStr(<<"/export">>), out) IN
              /\ lastReply' = out.text
              /\ IF r.returned
                 THEN /\ pc' = "compare"
                      /\ after' = r.value
                      /\ trace' = r.trace
                      /\ UNCHANGED result
                 ELSE /\ Terminate(r.result, r.trace)
                      /\ UNCHANGED after
       ELSE /\ pc' = "finish"
            /\ UNCHANGED <<lastReply, after, trace, result>>
    /\ UNCHANGED <<shellmode, has_ssh, cmdline, params, before, uploaded,
                   script, response, changed, files>>

\* lst[1:]
DropFirst(lst) == SubSeq(lst, 2, Len(lst))

\* The lines of a dump that are compared: text.splitlines(1)[1:]
ComparedLines(text) == DropFirst(SplitLines(text, TRUE))

\* Diff on the whole dumps, first lines included.
DiffKeepFirst(bef, aft, c) ==
    LET b == SplitLines(bef, TRUE)
        a == SplitLines(aft, TRUE)
    IN  IF Len(b) = Len(a)
        THEN IF \E i \in 1..Len(b) : a[i] # b[i] THEN c ELSE FALSE
        ELSE c

\* The comparison of the two dumps: the value of 'changed' after it, c being
\* its value before.
Diff(bef, aft, c) ==
    LET b == ComparedLines(bef)
        a == ComparedLines(aft)
    IN  IF Len(b) = Len(a)
        THEN IF \E i \in 1..Len(b) : a[i] # b[i] THEN c ELSE FALSE
        ELSE c

\* The rest of the test_change block: split, drop the first lines, compare.
Compare ==
    /\ pc = "compare"
    /\ changed' = Diff(before, after, changed)
    /\ trace' = Append(trace, Event("compare", PyNone, TRUE))
    /\ pc' = "finish"
    /\ UNCHANGED <<shellmode, has_ssh, cmdline, params, lastReply, before,
                   after, uploaded, script, response, files, result>>

RECURSIVE StdoutLines(_)
\* for line in lines: if line: stdout_lines.append(line.strip())
StdoutLines(lines) ==
    IF lines = <<>> THEN <<>>
    ELSE (IF Head(lines) # <<>> THEN <<Strip(Head(lines))>> ELSE <<>>)
             \o StdoutLines(Tail(lines))

\* What main does at its end, before it reports: close the device.
FinishClose(tr) == Append(tr, Close)

\* The end of main: print and exit 0 in shell mode, safe_exit as a module.
Finish ==
    /\ pc = "finish"
    /\ LET tr == Append(FinishClose(trace), Event("return", PyNone, TRUE)) IN
       IF shellmode
       THEN Terminate([NoResult EXCEPT !.kind = "Success",
                                       !.stdout = response], tr)
       ELSE Terminate([NoResult EXCEPT !.kind = "Success",
                                       !.stdout = response,
                                       !.stdout_lines =
                                           StdoutLines(SplitLines(response, FALSE)),
                                       !.has_changed = TRUE,
                                       !.changed = changed], tr)
    /\ UNCHANGED <<shellmode, has_ssh, cmdline, params, lastReply, before,
                   after, uploaded, script, response, changed, files>>

Next ==
    \/ ParseOpts \/ ModuleStart \/ MainParams \/ Resolve \/ Connect
    \/ TakeBefore \/ Upload \/ OpenScript \/ ScriptRemove \/ ScriptAdd
    \/ ScriptRun \/ Command \/ TakeAfter \/ Compare \/ Finish

Spec == Init /\ [][Next]_vars

-----------------------------------------------------------------------------
\* The comparison alone, over every pair of dumps of at most MaxSnapLen atoms.

SnapAtoms == {"a", "b", "\r", "\n"}

\* What sshcmd can return for a dump: a text without trailing whitespace.
Snapshots == {RStrip(t) : t \in Strings(SnapAtoms, MaxSnapLen)}

InitDiff ==
    /\ pc = "compare"
    /\ shellmode = FALSE
    /\ has_ssh = TRUE
    /\ cmdline = <<>>
    /\ params \in {p \in ModuleParams :
                     /\ p[<<"test_change">>] = PyBool(TRUE)
                     /\ p[<<"command">>] = PyStr(<<"/ip address print">>)
                     /\ p[<<"upload_script">>] = PyNone
                     /\ p[<<"upload_file">>] = PyNone}
    /\ trace = <<>>
    /\ lastReply = <<>>
    /\ before \in Snapshots
    /\ after \in Snapshots
    /\ uploaded = <<>>
    /\ script = <<>>
    /\ response = <<>>
    /\ changed = InitialChanged
    /\ files = [upload_file |-> "unchecked", upload_script |-> "unchecked"]
    /\ result = NoResult

NextDiff == Compare

SpecDiff == InitDiff /\ [][NextDiff]_vars

-----------------------------------------------------------------------------
\* Properties.

\* The positions of the trace that hold an event ev.
At(ev) == {i \in DOMAIN trace : trace[i].ev = ev}

\* The positions of the connects that succeeded.
Connected == {i \in At("connect") : trace[i].ok}

\* The commands given to exec_command, in order.
ExecCommands ==
    LET ex == SelectSeq(trace, LAMBDA e : e.ev = "exec") IN
    [i \in 1..Len(ex) |-> ex[i].cmd]

Succeeded == pc = "exit" /\ result.kind = "Success"

TestChange == Truthy(params[<<"test_change">>])

\* The commands of the script branch.
ScriptCommands ==
    << PyStr(RemoveCommand(scriptname)), PyStr(AddCommand(scriptname, script)),
       PyStr(RunCommand(scriptname)) >>

\* The reply holds one of the three error substrings.
HasErrorText(text) ==
    \E m \in {<<"bad command name", " ">>, <<"syntax error", " ">>,
              <<"failure:", " ">>} : Contains(m, text)

\* C1: on every exit path of an invocation that reached a connected Session,
\* the Session is closed exactly once before the invocation terminates.
C1_ClosedExactlyOnce ==
    (pc = "exit" /\ Connected # {}) => Cardinality(At("close")) = 1

\* C2: with test_change, a successful invocation connects, takes the before
\* dump, runs the command or the script's commands, takes the after dump,
\* compares and returns, in this order and without a close in between; and
\* no command is ever sent before a connect has succeeded.
C2_OrderOfEvents ==
    /\ \A i \in At("exec") :
         /\ \E j \in Connected : j < i
         /\ \A j \in At("close") : j > i
    /\ (Succeeded /\ TestChange) =>
         LET cmds == ExecCommands
             n    == Len(cmds)
         IN  /\ Cardinality(Connected) = 1
             /\ n >= 3
             /\ cmds[1] = PyStr(<<"export">>)
             /\ cmds[n] = PyStr(<<"/export">>)
             /\ IF files.upload_script = "readable"
                THEN n >= 5 /\ SubSeq(cmds, n - 3, n - 1) = ScriptCommands
                ELSE cmds[n - 1] \in
                       {params[<<"command">>],
                        PyStr(ImportCommand(uploaded, params[<<"username">>].s))}
             /\ \A e \in At("exec"), c \in At("compare") : e < c
             /\ Cardinality(At("compare")) = 1
             /\ Cardinality(At("return")) = 1
             /\ \A c \in At("compare"), d \in At("close") : c < d
             /\ \A c \in At("compare"), r \in At("return") : c < r
             /\ trace[Len(trace)].ev = "return"

C2_Witness ==
    /\ Succeeded /\ TestChange /\ ~shellmode
    /\ files.upload_script = "readable" /\ files.upload_file = "file"
    /\ Len(ExecCommands) = 6

\* The text of a dump after its first line.
AfterFirstLine(text) ==
    IF \E i \in 1..Len(text) : text[i] \in {"\r", "\n"}
    THEN LET i == CHOOSE k \in 1..Len(text) :
                    /\ text[k] \in {"\r", "\n"}
                    /\ \A j \in 1..(k - 1) : text[j] \notin {"\r", "\n"}
             e == IF text[i] = "\r" /\ i < Len(text) /\ text[i + 1] = "\n"
                  THEN i + 1 ELSE i
         IN  SubSeq(text, e + 1, Len(text))
    ELSE <<>>

\* The same lines in another order.
Reordered(x, y) ==
    /\ x # y
    /\ Len(x) = Len(y)
    /\ \E f \in [1..Len(x) -> 1..Len(x)] :
         /\ \A i, j \in 1..Len(x) : i # j => f[i] # f[j]
         /\ \A i \in 1..Len(x) : y[i] = x[f[i]]

\* C3: after the comparison changed is false exactly when the two dumps are
\* the same once their first lines are dropped; a different number of lines,
\* a different line anywhere and the same lines in another order all give
\* changed true.
C3_ChangedIffRestDiffers ==
    pc = "finish" =>
        LET b == ComparedLines(before)
            a == ComparedLines(after)
        IN  /\ changed = FALSE <=> AfterFirstLine(before) = AfterFirstLine(after)
            /\ changed = FALSE <=> b = a
            /\ Len(b) # Len(a) => changed
            /\ (\E i \in 1..Len(b) : i <= Len(a) /\ b[i] # a[i]) => changed
            /\ Reordered(b, a) => changed

C3_Witness ==
    /\ pc = "finish"
    /\ changed = FALSE
    /\ before # after
    /\ Len(ComparedLines(before)) = 2

\* C4: without test_change no dump is taken and nothing is compared, and a
\* successful invocation has changed true.
C4_ChangedWithoutTest ==
    ~TestChange =>
        /\ At("compare") = {}
        /\ \A i \in At("exec") :
             trace[i].cmd \notin {PyStr(<<"export">>), PyStr(<<"/export">>)}
        /\ Succeeded => changed
        /\ (Succeeded /\ ~shellmode) => (result.has_changed /\ result.changed)

C4_Witness ==
    Succeeded /\ ~TestChange /\ ~shellmode /\ result.changed /\ At("exec") # {}

\* C5: at most two connects are made; the first with the agent and the key
\* lookup, the second only after the first failed and with both disabled; if
\* the second fails the invocation ends with a ConnectionError.
C5_AtMostTwoConnects ==
    LET c == SelectSeq(trace, LAMBDA e : e.ev = "connect") IN
    /\ Len(c) <= 2
    /\ Len(c) >= 1 => c[1].allow_agent /\ c[1].look_for_keys
    /\ Len(c) = 2 =>
         /\ ~c[1].ok
         /\ ~c[2].allow_agent /\ ~c[2].look_for_keys
         /\ ~c[2].ok => (pc = "exit" /\ result.kind = "ConnectionError"
                           /\ result.status # 0 /\ At("exec") = {})

C5_Witness ==
    /\ Cardinality(At("connect")) = 2
    /\ Connected = {}
    /\ pc = "exit"
    /\ result.kind = "ConnectionError"

\* C6: a reply that holds "bad command name ", "syntax error " or "failure: "
\* ends the invocation with a CommandError and no output, whichever command
\* it answers.
C6_ErrorTextRejected ==
    HasErrorText(lastReply) =>
        /\ pc = "exit"
        /\ result.kind = "CommandError"
        /\ result.status # 0
        /\ result.stdout = <<>>
        /\ trace[Len(trace)].ev \in {"exec", "close"}

C6_Witness ==
    /\ Contains(<<"failure:", " ">>, lastReply)
    /\ Len(lastReply) > 2
    /\ result.kind = "CommandError"
    /\ Len(ExecCommands) = 6
    /\ ExecCommands[6] = PyStr(<<"/export">>)

\* C7: when upload_script is given and the script file cannot be read, the
\* invocation ends with a ScriptFileError and runs neither the script's
\* commands nor the command parameter.
C7_UnreadableScriptFails ==
    (pc = "exit" /\ files.upload_script \in {"missing", "unreadable"}) =>
        /\ result.kind = "ScriptFileError"
        /\ result.status # 0
        /\ \A i \in 1..Len(ExecCommands) :
             /\ ExecCommands[i] # params[<<"command">>]
             /\ \A k \in 1..Len(ExecCommands[i].s) :
                  ExecCommands[i].s[k] \notin
                      {"/system script remove [ find name=",
                       "/system script add name=",
                       "/system script run [ find name=",
                       "/user ssh-keys import public-key-file="}

RECURSIVE TrimmedNonEmpty(_)
\* The lines that are not empty once trimmed, trimmed.
TrimmedNonEmpty(lines) ==
    IF lines = <<>> THEN <<>>
    ELSE (IF Strip(Head(lines)) # <<>> THEN <<Strip(Head(lines))>> ELSE <<>>)
             \o TrimmedNonEmpty(Tail(lines))

\* C8: as a module, stdout_lines is the list of the output's lines that are
\* not empty after trimming, each trimmed and in order; it holds no empty
\* string.
C8_StdoutLinesNonEmpty ==
    (Succeeded /\ ~shellmode) =>
        /\ result.stdout_lines =
               TrimmedNonEmpty(SplitLines(result.stdout, FALSE))
        /\ \A i \in 1..Len(result.stdout_lines) : result.stdout_lines[i] # <<>>

\* The listing of the uploaded file was the last command and was answered.
ListingAnswered ==
    /\ files.upload_file = "file"
    /\ At("exec") # {}
    /\ LET i == CHOOSE k \in At("exec") : \A j \in At("exec") : j <= k IN
       /\ trace[i].cmd = PyStr(ListingCommand(uploaded))
       /\ trace[i].ok

\* After the listing the invocation has ended, the device was closed once and
\* no command followed.
EndedAsUploadError ==
    /\ pc = "exit"
    /\ result.kind = "UploadError"
    /\ result.status # 0
    /\ Cardinality(At("close")) = 1
    /\ trace[Len(trace)].ev = "close"

\* C9 as stated: when the listing that follows an upload does not hold the
\* uploaded name, the invocation ends with an UploadError, the Session is
\* released and nothing more is executed.
C9_Original ==
    (ListingAnswered /\ ~Contains(uploaded, lastReply)) => EndedAsUploadError

\* C9 as amended: the same, for a listing that holds none of the three error
\* substrings (one that does ends the invocation with a CommandError first).
C9_UploadErrorOnCleanListing ==
    (ListingAnswered /\ ~HasErrorText(lastReply)
        /\ ~Contains(uploaded, lastReply)) => EndedAsUploadError

C9_Witness ==
    /\ ListingAnswered
    /\ ~Contains(uploaded, lastReply)
    /\ result.kind = "UploadError"
    /\ shellmode
    /\ Len(ExecCommands) = 2

\* The names parse_opts accepts.
OptionNames ==
    {"username", "password", "key_filename", "timeout", "port", "test_change",
     "command", "upload_script", "upload_file", "hostname"}

\* The command line holds a --name=value whose name is not an option.
HasUnknownOption(words) ==
    \E i \in 2..Len(words) :
        /\ Len(words[i]) >= 3
        /\ words[i][1] = "--"
        /\ words[i][3] = "="
        /\ words[i][2] \notin OptionNames

\* C10: a command line with an unrecognized --name=value prints the usage and
\* exits with a non-zero status, before any resolution or connect, whatever
\* else it holds.
C10_UnknownOptionIsUsageError ==
    [][(pc = "start" /\ HasUnknownOption(cmdline)) =>
         /\ pc' = "exit"
         /\ result'.kind = "UsageError"
         /\ result'.status # 0
         /\ trace' = <<Usage>>]_vars

C10_Witness ==
    /\ pc = "exit"
    /\ result.msg = "Unknown option"
    /\ trace = <<Usage>>
    /\ HasUnknownOption(cmdline)
    /\ cmdline[2] = <<"--", "hostname", "=", "router">>
    /\ Len(cmdline) = 4

====
